---------------------------- MODULE Spec2Model ----------------------------
(***************************************************************************)
(* Model of the seller-apis synchronisation scripts: seller.py (OZON) and  *)
(* market.py (Yandex market, campaigns FBS and DBS).                       *)
(*                                                                         *)
(* A Python str is a tuple of one-character strings, so that str(), int()  *)
(* and price_conversion are computed character by character.  A cell of    *)
(* the feed is a tagged value: [t |-> "str", s |-> chars, n |-> 0] or      *)
(* [t |-> "int", s |-> <<>>, n |-> number] (pandas yields both).           *)
(***************************************************************************)
EXTENDS Integers, Sequences, FiniteSets, TLC

(***************************************************************************)
(* Bounds of the model.  The batch sizes and page limits stand for the     *)
(* literals of the source (100, 900, 1000, 2000, 500; limit 1000 and 200), *)
(* scaled down so that a catalog of a few offers fills several chunks and  *)
(* pages.                                                                  *)
(***************************************************************************)
MaxCatalog == 3
MaxFeed == 2
MaxTok == 3
MaxLen == 5
MaxElem == 2
MaxN == 3
SellerStockBatch == 1
SellerPriceBatch == 1
SellerUploadPriceBatch == 2
MarketStockBatch == 2
MarketPriceBatch == 1
SellerLimit == 2
MarketLimit == 1

Min(a, b) == IF a < b THEN a ELSE b

(* lst[i:j] of Python for 0 <= i, 0 <= j *)
Slice(lst, i, j) == SubSeq(lst, i + 1, Min(j, Len(lst)))

Range(f) == {f[i] : i \in DOMAIN f}

RECURSIVE Concat(_)
Concat(ss) == IF ss = <<>> THEN <<>> ELSE Head(ss) \o Concat(Tail(ss))

(***************************************************************************)
(* Python values of the feed cells                                         *)
(***************************************************************************)
S(chars) == [t |-> "str", s |-> chars, n |-> 0]
I(k) == [t |-> "int", s |-> <<>>, n |-> k]

Digits == <<"0", "1", "2", "3", "4", "5", "6", "7", "8", "9">>
IsDigit(c) == \E i \in 1..10 : Digits[i] = c
DigitVal(c) == (CHOOSE i \in 1..10 : Digits[i] = c) - 1

RECURSIVE NatToStr(_)
NatToStr(k) ==
    IF k < 10 THEN <<Digits[k + 1]>>
    ELSE NatToStr(k \div 10) \o <<Digits[(k % 10) + 1]>>

(* str(v) *)
PyStr(v) ==
    IF v.t = "str" THEN v.s
    ELSE IF v.n < 0 THEN <<"-">> \o NatToStr(0 - v.n) ELSE NatToStr(v.n)

RECURSIVE LStrip(_)
LStrip(s) == IF s # <<>> /\ Head(s) = " " THEN LStrip(Tail(s)) ELSE s

RECURSIVE RStrip(_)
RStrip(s) ==
    IF s # <<>> /\ s[Len(s)] = " " THEN RStrip(SubSeq(s, 1, Len(s) - 1)) ELSE s

(* the digits of an int literal body: digits, single underscores between them *)
IsIntBody(s) ==
    /\ s # <<>>
    /\ IsDigit(s[1])
    /\ IsDigit(s[Len(s)])
    /\ \A i \in 1..Len(s) : IsDigit(s[i]) \/ s[i] = "_"
    /\ \A i \in 1..(Len(s) - 1) : ~(s[i] = "_" /\ s[i + 1] = "_")

RECURSIVE IntBodyVal(_, _)
IntBodyVal(s, acc) ==
    IF s = <<>> THEN acc
    ELSE IF Head(s) = "_" THEN IntBodyVal(Tail(s), acc)
    ELSE IntBodyVal(Tail(s), 10 * acc + DigitVal(Head(s)))

(* int(v): [err |-> "" or the exception, val |-> the integer] *)
PyInt(v) ==
    IF v.t = "int" THEN [err |-> "", val |-> v.n]
    ELSE LET st == RStrip(LStrip(v.s))
             signed == st # <<>> /\ Head(st) \in {"+", "-"}
             body == IF signed THEN Tail(st) ELSE st
         IN  IF ~IsIntBody(body) THEN [err |-> "ValueError", val |-> 0]
             ELSE IF signed /\ Head(st) = "-"
                  THEN [err |-> "", val |-> 0 - IntBodyVal(body, 0)]
                  ELSE [err |-> "", val |-> IntBodyVal(body, 0)]

(***************************************************************************)
(* seller.py: price_conversion, divide                                     *)
(***************************************************************************)
RECURSIVE BeforeDot(_)
BeforeDot(s) ==
    IF s = <<>> \/ Head(s) = "." THEN <<>> ELSE <<Head(s)>> \o BeforeDot(Tail(s))

RECURSIVE OnlyDigits(_)
OnlyDigits(s) ==
    IF s = <<>> THEN <<>>
    ELSE IF IsDigit(Head(s)) THEN <<Head(s)>> \o OnlyDigits(Tail(s))
    ELSE OnlyDigits(Tail(s))

(* re.sub("[^0-9]", "", price.split(".")[0]); a non-str has no split *)
price_conversion(price) ==
    IF price.t # "str" THEN [err |-> "AttributeError", val |-> <<>>]
    ELSE [err |-> "", val |-> OnlyDigits(BeforeDot(price.s))]

RECURSIVE divide_overlapping(_, _, _)
(* faulty variant: the slice runs one element into the next chunk *)
divide_overlapping(lst, n, i) ==
    IF i >= Len(lst) THEN <<>>
    ELSE <<Slice(lst, i, i + n + 1)>> \o divide_overlapping(lst, n, i + n)

RECURSIVE divide_from(_, _, _)
divide_from(lst, n, i) ==
    IF i >= Len(lst) THEN <<>>
    ELSE <<Slice(lst, i, i + n)>> \o divide_from(lst, n, i + n)

(* faulty variant: the chunk shorter than n, at the end, is dropped *)
divide_full_chunks_only(lst, n) ==
    [k \in 1..(Len(lst) \div n) |-> Slice(lst, (k - 1) * n, k * n)]

(* list(divide(lst, n)) for n >= 1: for i in range(0, len(lst), n): yield lst[i: i + n] *)
divide(lst, n) == divide_from(lst, n, 0)


(***************************************************************************)
(* create_stocks and create_prices, seller.py and market.py                *)
(***************************************************************************)
(* faulty variant: the matched identifier stays in offer_ids *)
Remove_nothing(lst, x) == lst

RECURSIVE Remove(_, _)
(* list.remove(x): drops the first occurrence *)
Remove(lst, x) ==
    IF lst = <<>> THEN <<>>
    ELSE IF Head(lst) = x THEN Tail(lst)
    ELSE <<Head(lst)>> \o Remove(Tail(lst), x)

(* faulty variant: the rule for "1" is missing *)
seller_stock_without_one(watch) ==
    LET count == PyStr(watch.Kolichestvo)
    IN  IF count = <<">", "1", "0">> THEN [err |-> "", val |-> 100]
        ELSE PyInt(watch.Kolichestvo)

(* seller.py 198-204: the stock of a matched row *)
seller_stock(watch) ==
    LET count == PyStr(watch.Kolichestvo)
    IN  IF count = <<">", "1", "0">> THEN [err |-> "", val |-> 100]
        ELSE IF count = <<"1">> THEN [err |-> "", val |-> 0]
        ELSE PyInt(watch.Kolichestvo)

(* market.py 178-184: the stock of a matched row *)
market_stock(watch) ==
    LET count == PyStr(watch.Kolichestvo)
    IN  IF count = <<">", "1", "0">> THEN [err |-> "", val |-> 100]
        ELSE IF count = <<"1">> THEN [err |-> "", val |-> 0]
        ELSE PyInt(watch.Kolichestvo)

seller_stock_record(offer_id, stock) == [offer_id |-> offer_id, stock |-> stock]

(* faulty variant: the time of the run leaks into the count *)
market_stock_record_count_by_time(sku, warehouse_id, count, date) ==
    [sku |-> sku, warehouseId |-> warehouse_id,
     items |-> <<[count |-> count + date, type |-> "FIT", updatedAt |-> date]>>]

market_stock_record(sku, warehouse_id, count, date) ==
    [sku |-> sku, warehouseId |-> warehouse_id,
     items |-> <<[count |-> count, type |-> "FIT", updatedAt |-> date]>>]

(* faulty variant: an offer missing from the feed keeps a stock of 100 *)
seller_zero_stocks_full(offer_ids) ==
    [i \in 1..Len(offer_ids) |-> seller_stock_record(offer_ids[i], 100)]

RECURSIVE seller_zero_stocks(_)
seller_zero_stocks(offer_ids) ==
    IF offer_ids = <<>> THEN <<>>
    ELSE <<seller_stock_record(Head(offer_ids), 0)>> \o seller_zero_stocks(Tail(offer_ids))

RECURSIVE seller_match_stocks(_, _, _)
(* the first loop of create_stocks; offer_ids is the caller's list, mutated in place *)
seller_match_stocks(rem, offer_ids, stocks) ==
    IF rem = <<>> THEN [err |-> "", stocks |-> stocks, offer_ids |-> offer_ids]
    ELSE LET watch == Head(rem)
             code == PyStr(watch.Kod)
         IN  IF code \in Range(offer_ids)
             THEN LET q == seller_stock(watch)
                  IN  IF q.err # ""
                      THEN [err |-> q.err, stocks |-> stocks, offer_ids |-> offer_ids]
                      ELSE seller_match_stocks(Tail(rem), Remove(offer_ids, code),
                               Append(stocks, seller_stock_record(code, q.val)))
             ELSE seller_match_stocks(Tail(rem), offer_ids, stocks)

(* [err, stocks (the returned list, when err = ""), offer_ids (the argument afterwards)] *)
seller_create_stocks(watch_remnants, offer_ids) ==
    LET m == seller_match_stocks(watch_remnants, offer_ids, <<>>)
    IN  IF m.err # "" THEN [err |-> m.err, stocks |-> <<>>, offer_ids |-> m.offer_ids]
        ELSE [err |-> "", stocks |-> m.stocks \o seller_zero_stocks(m.offer_ids),
              offer_ids |-> m.offer_ids]

RECURSIVE market_zero_stocks(_, _, _)
market_zero_stocks(offer_ids, warehouse_id, date) ==
    IF offer_ids = <<>> THEN <<>>
    ELSE <<market_stock_record(Head(offer_ids), warehouse_id, 0, date)>>
         \o market_zero_stocks(Tail(offer_ids), warehouse_id, date)

RECURSIVE market_match_stocks(_, _, _, _, _)
market_match_stocks(rem, offer_ids, stocks, warehouse_id, date) ==
    IF rem = <<>> THEN [err |-> "", stocks |-> stocks, offer_ids |-> offer_ids]
    ELSE LET watch == Head(rem)
             code == PyStr(watch.Kod)
         IN  IF code \in Range(offer_ids)
             THEN LET q == market_stock(watch)
                  IN  IF q.err # ""
                      THEN [err |-> q.err, stocks |-> stocks, offer_ids |-> offer_ids]
                      ELSE market_match_stocks(Tail(rem), Remove(offer_ids, code),
                               Append(stocks,
                                      market_stock_record(code, warehouse_id, q.val, date)),
                               warehouse_id, date)
             ELSE market_match_stocks(Tail(rem), offer_ids, stocks, warehouse_id, date)

market_create_stocks(watch_remnants, offer_ids, warehouse_id, date) ==
    LET m == market_match_stocks(watch_remnants, offer_ids, <<>>, warehouse_id, date)
    IN  IF m.err # "" THEN [err |-> m.err, stocks |-> <<>>, offer_ids |-> m.offer_ids]
        ELSE [err |-> "",
              stocks |-> m.stocks \o market_zero_stocks(m.offer_ids, warehouse_id, date),
              offer_ids |-> m.offer_ids]

RECURSIVE seller_prices_loop(_, _, _)
seller_prices_loop(rem, offer_ids, prices) ==
    IF rem = <<>> THEN [err |-> "", prices |-> prices]
    ELSE LET watch == Head(rem)
             code == PyStr(watch.Kod)
         IN  IF code \in Range(offer_ids)
             THEN LET p == price_conversion(watch.Tsena)
                  IN  IF p.err # "" THEN [err |-> p.err, prices |-> <<>>]
                      ELSE seller_prices_loop(Tail(rem), offer_ids,
                               Append(prices,
                                      [auto_action_enabled |-> "UNKNOWN",
                                       currency_code |-> "RUB",
                                       offer_id |-> code,
                                       old_price |-> "0",
                                       price |-> p.val]))
             ELSE seller_prices_loop(Tail(rem), offer_ids, prices)

(* seller.py create_prices: the price is the str price_conversion returns *)
seller_create_prices(watch_remnants, offer_ids) ==
    seller_prices_loop(watch_remnants, offer_ids, <<>>)

RECURSIVE market_prices_loop(_, _, _)
market_prices_loop(rem, offer_ids, prices) ==
    IF rem = <<>> THEN [err |-> "", prices |-> prices]
    ELSE LET watch == Head(rem)
             code == PyStr(watch.Kod)
         IN  IF code \in Range(offer_ids)
             THEN LET p == price_conversion(watch.Tsena)
                      v == PyInt(S(p.val))
                  IN  IF p.err # "" THEN [err |-> p.err, prices |-> <<>>]
                      ELSE IF v.err # "" THEN [err |-> v.err, prices |-> <<>>]
                      ELSE market_prices_loop(Tail(rem), offer_ids,
                               Append(prices,
                                      [id |-> code,
                                       price |-> [value |-> v.val, currencyId |-> "RUR"]]))
             ELSE market_prices_loop(Tail(rem), offer_ids, prices)

(* market.py create_prices: the price is int(price_conversion(...)) *)
market_create_prices(watch_remnants, offer_ids) ==
    market_prices_loop(watch_remnants, offer_ids, <<>>)

(***************************************************************************)
(* The run of one entry point                                              *)
(***************************************************************************)
VARIABLES
    entry,          \* the function that is run
    target,         \* the campaign argument of an entry that takes one
    pc,             \* index of the current statement in Flow(entry)
    status,         \* "running", "returned", "caught" (an except clause of main), "raised"
    exc,            \* the exception raised, "" when none
    catalogs,       \* the marketplace: campaign -> the listed offer identifiers
    last_page,      \* how Yandex market marks the last page: "empty", "absent", "extra"
    source_feed,    \* the rows of ostatki.xls at timeworld.ru
    watch_remnants, \* the local watch_remnants
    offer_ids,      \* the local offer_ids list
    stocks,         \* the local stocks
    prices,         \* the local prices
    todo,           \* the chunks the running for loop has not taken yet
    calls,          \* the update requests sent so far, in order
    page,           \* the cursor of get_offer_ids (last_id / page)
    product_list,   \* the accumulator of get_offer_ids
    page_log,       \* the page requests of the running get_offer_ids, in order
    unawaited,      \* coroutine objects created and never awaited
    ret,            \* the value the entry returned
    clock,          \* utcnow, in steps
    div_lst, div_n, div_out, \* a call list(divide(div_lst, div_n)) and its value
    made,           \* the record lists create_stocks / create_prices returned in this run
    earlier         \* the runs of the script that ended before this one

vars == <<entry, target, pc, status, exc, catalogs, last_page, source_feed, watch_remnants,
          offer_ids, stocks, prices, todo, calls, page, product_list, page_log,
          unawaited, ret, clock, div_lst, div_n, div_out, made, earlier>>

St(op, camp) == [op |-> op, camp |-> camp]

SellerEntries == {"seller_main", "seller_upload_stocks", "seller_upload_prices",
                  "seller_get_offer_ids", "seller_create_stocks", "seller_create_prices"}
MarketEntries == {"market_main", "market_upload_stocks", "market_upload_prices",
                  "market_get_offer_ids", "market_create_stocks", "market_create_prices"}
RunEntries == {"seller_main", "market_main", "seller_upload_stocks",
               "seller_upload_prices", "market_upload_stocks", "market_upload_prices"}

(* the statements of each entry, in program order; camp is the campaign a
   statement of market.main works on ("" : the entry's own target) *)
Flow(e) ==
    CASE e = "seller_main" ->
           <<St("get_offer_ids", ""), St("download_stock", ""), St("create_stocks", ""),
             St("update_stocks", ""), St("create_prices", ""), St("update_price", "")>>
      [] e = "market_main" ->
           <<St("download_stock", ""),
             St("get_offer_ids", "FBS"), St("create_stocks", "FBS"),
             St("update_stocks", "FBS"), St("upload_prices", "FBS"),
             St("get_offer_ids", "DBS"), St("create_stocks", "DBS"),
             St("update_stocks", "DBS"), St("upload_prices", "DBS")>>
      [] e \in {"seller_upload_stocks", "market_upload_stocks"} ->
           <<St("get_offer_ids", ""), St("create_stocks", ""), St("update_stocks", ""),
             St("return_stocks", "")>>
      [] e \in {"seller_upload_prices", "market_upload_prices"} ->
           <<St("get_offer_ids", ""), St("create_prices", ""), St("update_price", ""),
             St("return_prices", "")>>
      [] e \in {"seller_get_offer_ids", "market_get_offer_ids"} ->
           <<St("get_offer_ids", "")>>
      [] e \in {"seller_create_stocks", "market_create_stocks"} ->
           <<St("create_stocks", "")>>
      [] e \in {"seller_create_prices", "market_create_prices"} ->
           <<St("create_prices", "")>>
      [] OTHER -> <<>>

Running == status = "running" /\ pc \in 1..Len(Flow(entry))
Op == Flow(entry)[pc].op
Camp == IF Flow(entry)[pc].camp = "" THEN target ELSE Flow(entry)[pc].camp

(* the try block of main: all of seller.main's body, market.main's after download_stock *)
InTry ==
    \/ entry = "seller_main"
    \/ entry = "market_main" /\ pc >= 2

Warehouse(camp) == IF camp = "FBS" THEN "WAREHOUSE_FBS_ID" ELSE "WAREHOUSE_DBS_ID"

StockBatch(e) == IF e \in SellerEntries THEN SellerStockBatch ELSE MarketStockBatch

PriceBatch(e) ==
    IF e = "seller_main" THEN SellerPriceBatch
    ELSE IF e = "seller_upload_prices" THEN SellerUploadPriceBatch
    ELSE MarketPriceBatch

(* the statement after pc, or the end of the entry *)
Goto(k) ==
    /\ pc' = k
    /\ status' = IF k > Len(Flow(entry)) THEN "returned" ELSE "running"
    /\ exc' = exc

Raise(e) ==
    /\ pc' = pc
    /\ status' = IF InTry THEN "caught" ELSE "raised"
    /\ exc' = e

NetErrors == {"HTTPError", "ReadTimeout", "ConnectionError"}

(***************************************************************************)
(* The marketplaces' product lists, served page by page.  A cursor is <<>>  *)
(* (the empty str), None, or <<k>>: the token of the page at offset k.      *)
(***************************************************************************)
None == <<-1>>
Falsy(tok) == tok = <<>> \/ tok = None
Offset(cursor) == IF Falsy(cursor) THEN 0 ELSE cursor[1]

(* seller.py get_product_list: the "result" of /v2/product/list *)
seller_get_product_list(cat, last_id) ==
    LET off == Offset(last_id)
        ids == Slice(cat, off, off + SellerLimit)
    IN  {[items |-> [i \in 1..Len(ids) |-> [offer_id |-> ids[i]]],
          total |-> Len(cat),
          last_id |-> <<off + Len(ids)>>]}

(* market.py get_product_list: the "result" of offer-mapping-entries; the last
   page carries an empty nextPageToken ("empty") or none ("absent", "extra"), and
   with "extra" a full last page still carries the token of an empty page *)
market_get_product_list(cat, page_token, style) ==
    LET off == Offset(page_token)
        ids == Slice(cat, off, off + MarketLimit)
        tok == IF off + MarketLimit < Len(cat) THEN <<off + MarketLimit>>
               ELSE IF off + MarketLimit = Len(cat) /\ ids # <<>> /\ style = "extra"
                    THEN <<off + MarketLimit>>
                    ELSE IF style = "empty" THEN <<>> ELSE None
    IN  {[offerMappingEntries |-> [i \in 1..Len(ids) |-> [offer |-> [shopSku |-> ids[i]]]],
          paging |-> [nextPageToken |-> tok]]}

(* one iteration of the while loop of seller.get_offer_ids on response some_prod:
   [product_list, last_id, stop (the break is taken), offer_ids (the value returned)] *)
seller_get_offer_ids_iter(plist, some_prod) ==
    LET pl == plist \o some_prod.items
    IN  [product_list |-> pl,
         cursor |-> some_prod.last_id,
         stop |-> some_prod.total = Len(pl),
         offer_ids |-> [i \in 1..Len(pl) |-> pl[i].offer_id]]

(* faulty variant: the loop breaks on a token that is there *)
market_get_offer_ids_iter_negated(plist, some_prod) ==
    LET pl == plist \o some_prod.offerMappingEntries
        tok == some_prod.paging.nextPageToken
    IN  [product_list |-> pl,
         cursor |-> tok,
         stop |-> ~Falsy(tok) \/ Len(some_prod.offerMappingEntries) = 0,
         offer_ids |-> [i \in 1..Len(pl) |-> pl[i].offer.shopSku]]

(* one iteration of the while loop of market.get_offer_ids *)
market_get_offer_ids_iter(plist, some_prod) ==
    LET pl == plist \o some_prod.offerMappingEntries
        tok == some_prod.paging.nextPageToken
    IN  [product_list |-> pl,
         cursor |-> tok,
         stop |-> Falsy(tok),
         offer_ids |-> [i \in 1..Len(pl) |-> pl[i].offer.shopSku]]

(***************************************************************************)
(* Actions                                                                 *)
(***************************************************************************)
divide_vars == <<div_lst, div_n, div_out>>
run_vars == <<made, earlier>>

(* get_offer_ids: one page request and the rest of the loop body *)
get_offer_ids_page ==
    /\ Running /\ Op = "get_offer_ids"
    /\ \E some_prod \in (IF entry \in SellerEntries
                         THEN seller_get_product_list(catalogs[Camp], page)
                         ELSE market_get_product_list(catalogs[Camp], page, last_page)) :
          LET it == IF entry \in SellerEntries
                    THEN seller_get_offer_ids_iter(product_list, some_prod)
                    ELSE market_get_offer_ids_iter(product_list, some_prod)
          IN  /\ page_log' = Append(page_log,
                                    [camp |-> Camp, sent |-> page, got |-> it.cursor,
                                     n |-> Len(it.product_list) - Len(product_list)])
              /\ IF it.stop
                 THEN /\ offer_ids' = it.offer_ids
                      /\ product_list' = <<>>
                      /\ page' = <<>>
                      /\ Goto(pc + 1)
                 ELSE /\ offer_ids' = offer_ids
                      /\ product_list' = it.product_list
                      /\ page' = it.cursor
                      /\ Goto(pc)
    /\ clock' = clock + 1
    /\ UNCHANGED <<entry, target, catalogs, last_page, source_feed, watch_remnants, stocks,
                   prices, todo, calls, unawaited, ret>>
    /\ UNCHANGED divide_vars
    /\ UNCHANGED run_vars

(* download_stock *)
download_stock ==
    /\ Running /\ Op = "download_stock"
    /\ watch_remnants' = source_feed
    /\ Goto(pc + 1)
    /\ clock' = clock + 1
    /\ UNCHANGED <<entry, target, catalogs, last_page, source_feed, offer_ids, stocks, prices,
                   todo, calls, page, product_list, page_log, unawaited, ret>>
    /\ UNCHANGED divide_vars
    /\ UNCHANGED run_vars

(* a product list request or the download raises *)
request_fails ==
    /\ Running /\ Op \in {"get_offer_ids", "download_stock"}
    /\ \E e \in NetErrors : Raise(e)
    /\ clock' = clock + 1
    /\ UNCHANGED <<entry, target, catalogs, last_page, source_feed, watch_remnants, offer_ids,
                   stocks, prices, todo, calls, page, product_list, page_log,
                   unawaited, ret>>
    /\ UNCHANGED divide_vars
    /\ UNCHANGED run_vars

NextOpIs(op) == pc < Len(Flow(entry)) /\ Flow(entry)[pc + 1].op = op

(* stocks = create_stocks(...), and the list(divide(stocks, n)) of the for statement *)
create_stocks_call ==
    /\ Running /\ Op = "create_stocks"
    /\ LET r == IF entry \in SellerEntries
                THEN seller_create_stocks(watch_remnants, offer_ids)
                ELSE market_create_stocks(watch_remnants, offer_ids,
                                          Warehouse(Camp), clock)
           chunks == IF NextOpIs("update_stocks")
                     THEN divide(r.stocks, StockBatch(entry)) ELSE <<>>
       IN  /\ offer_ids' = r.offer_ids
           /\ IF r.err # ""
              THEN Raise(r.err) /\ UNCHANGED <<stocks, todo, made>>
              ELSE /\ stocks' = r.stocks
                   /\ made' = Append(made, [op |-> Op, camp |-> Camp, records |-> r.stocks])
                   /\ todo' = chunks
                   /\ Goto(IF chunks = <<>> THEN pc + 2 ELSE pc + 1)
    /\ UNCHANGED <<entry, target, catalogs, last_page, source_feed, watch_remnants, prices,
                   calls, page, product_list, page_log, unawaited, ret, clock>>
    /\ UNCHANGED divide_vars
    /\ UNCHANGED earlier

(* prices = create_prices(...), and the list(divide(prices, n)) of the for statement *)
create_prices_call ==
    /\ Running /\ Op = "create_prices"
    /\ LET r == IF entry \in SellerEntries
                THEN seller_create_prices(watch_remnants, offer_ids)
                ELSE market_create_prices(watch_remnants, offer_ids)
           chunks == IF NextOpIs("update_price")
                     THEN divide(r.prices, PriceBatch(entry)) ELSE <<>>
       IN  IF r.err # ""
           THEN Raise(r.err) /\ UNCHANGED <<prices, todo, made>>
           ELSE /\ prices' = r.prices
                /\ made' = Append(made, [op |-> Op, camp |-> Camp, records |-> r.prices])
                /\ todo' = chunks
                /\ Goto(IF chunks = <<>> THEN pc + 2 ELSE pc + 1)
    /\ UNCHANGED <<entry, target, catalogs, last_page, source_feed, watch_remnants, offer_ids,
                   stocks, calls, page, product_list, page_log, unawaited, ret, clock>>
    /\ UNCHANGED divide_vars
    /\ UNCHANGED earlier

Endpoint == IF Op = "update_stocks" THEN "stocks" ELSE "prices"

(* one iteration of a for loop: update_stocks(some_stock, ...) / update_price(some_price, ...) *)
update_call ==
    /\ Running /\ Op \in {"update_stocks", "update_price"} /\ todo # <<>>
    /\ calls' = Append(calls, [endpoint |-> Endpoint, camp |-> Camp,
                               body |-> Head(todo), ok |-> TRUE])
    /\ todo' = Tail(todo)
    /\ Goto(IF Tail(todo) = <<>> THEN pc + 1 ELSE pc)
    /\ clock' = clock + 1
    /\ UNCHANGED <<entry, target, catalogs, last_page, source_feed, watch_remnants, offer_ids,
                   stocks, prices, page, product_list, page_log, unawaited, ret>>
    /\ UNCHANGED divide_vars
    /\ UNCHANGED run_vars

(* faulty variant: the loop catches the error of a chunk and goes on with the next *)
update_fails_and_continues ==
    /\ Running /\ Op \in {"update_stocks", "update_price"} /\ todo # <<>>
    /\ calls' = Append(calls, [endpoint |-> Endpoint, camp |-> Camp,
                               body |-> Head(todo), ok |-> FALSE])
    /\ todo' = Tail(todo)
    /\ Goto(IF Tail(todo) = <<>> THEN pc + 1 ELSE pc)
    /\ clock' = clock + 1
    /\ UNCHANGED <<entry, target, catalogs, last_page, source_feed, watch_remnants, offer_ids,
                   stocks, prices, page, product_list, page_log, unawaited, ret>>
    /\ UNCHANGED divide_vars
    /\ UNCHANGED run_vars

(* the update request is sent and raises (raise_for_status, a timeout, no connection) *)
update_fails ==
    /\ Running /\ Op \in {"update_stocks", "update_price"} /\ todo # <<>>
    /\ calls' = Append(calls, [endpoint |-> Endpoint, camp |-> Camp,
                               body |-> Head(todo), ok |-> FALSE])
    /\ \E e \in NetErrors : Raise(e)
    /\ clock' = clock + 1
    /\ UNCHANGED <<entry, target, catalogs, last_page, source_feed, watch_remnants, offer_ids,
                   stocks, prices, todo, page, product_list, page_log, unawaited, ret>>
    /\ UNCHANGED divide_vars
    /\ UNCHANGED run_vars

(* market.main: upload_prices(...) without await only creates a coroutine object *)
upload_prices_call ==
    /\ Running /\ Op = "upload_prices"
    /\ unawaited' = Append(unawaited, Camp)
    /\ Goto(pc + 1)
    /\ UNCHANGED <<entry, target, catalogs, last_page, source_feed, watch_remnants, offer_ids,
                   stocks, prices, todo, calls, page, product_list, page_log, ret, clock>>
    /\ UNCHANGED divide_vars
    /\ UNCHANGED run_vars

StockCount(rec) == IF entry \in SellerEntries THEN rec.stock ELSE rec.items[1].count

(* the return statement of upload_stocks / upload_prices *)
return_value ==
    /\ Running /\ Op \in {"return_stocks", "return_prices"}
    /\ ret' = IF Op = "return_stocks"
              THEN <<SelectSeq(stocks, LAMBDA st : StockCount(st) # 0), stocks>>
              ELSE <<prices>>
    /\ Goto(pc + 1)
    /\ UNCHANGED <<entry, target, catalogs, last_page, source_feed, watch_remnants, offer_ids,
                   stocks, prices, todo, calls, page, product_list, page_log,
                   unawaited, clock>>
    /\ UNCHANGED divide_vars
    /\ UNCHANGED run_vars

(* list(divide(div_lst, div_n)) *)
divide_call ==
    /\ entry = "divide" /\ status = "running"
    /\ div_out' = divide(div_lst, div_n)
    /\ status' = "returned"
    /\ UNCHANGED <<entry, target, pc, exc, catalogs, last_page, source_feed, watch_remnants,
                   offer_ids, stocks, prices, todo, calls, page, product_list,
                   page_log, unawaited, ret, clock, div_lst, div_n>>
    /\ UNCHANGED run_vars

(* the script is executed a second time: main starts with fresh locals, the feed
   and the marketplace are as they were, the time has moved on *)
main_again ==
    /\ entry \in {"seller_main", "market_main"} /\ status # "running"
    /\ earlier = <<>>
    /\ earlier' = Append(earlier, [made |-> made, calls |-> calls, status |-> status])
    /\ pc' = 1 /\ status' = "running" /\ exc' = ""
    /\ watch_remnants' = <<>> /\ offer_ids' = <<>> /\ stocks' = <<>> /\ prices' = <<>>
    /\ todo' = <<>> /\ calls' = <<>> /\ page' = <<>> /\ product_list' = <<>>
    /\ page_log' = <<>> /\ unawaited' = <<>> /\ ret' = <<>> /\ made' = <<>>
    /\ clock' = clock + 1
    /\ UNCHANGED <<entry, target, catalogs, last_page, source_feed>>
    /\ UNCHANGED divide_vars

(***************************************************************************)
(* Inputs                                                                  *)
(***************************************************************************)
SeqsUpTo(set, k) == UNION {[1..m -> set] : m \in 0..k}

IdList == <<(<<"A">>), (<<"B">>), (<<"C">>), (<<"D">>), (<<"E">>)>>
CatalogIds == {IdList[i] : i \in 1..Min(MaxCatalog, Len(IdList))}

Reverse(s) == [i \in 1..Len(s) |-> s[Len(s) + 1 - i]]

(* the identifiers of ids in the order of IdList *)
Listing(ids) == SelectSeq(IdList, LAMBDA x : x \in ids)

(* a catalog snapshot lists every offer identifier once: any of the identifiers,
   in the order of IdList or the other way round *)
Catalogs ==
    {Listing(ids) : ids \in SUBSET CatalogIds}
        \cup {Reverse(Listing(ids)) : ids \in SUBSET CatalogIds}

Row(code, quantity, price) == [Kod |-> code, Kolichestvo |-> quantity, Tsena |-> price]

(* rows of the feed: a listed code with ">10", one with "1", a repeated code with
   a numeric cell, a code listed nowhere, and a quantity that is no number *)
FeedRows ==
    {Row(S(<<"A">>), S(<<">", "1", "0">>), S(<<"1", "0", "0", ".", "0", "0", " ", "r">>)),
     Row(S(<<"B">>), S(<<"1">>), S(<<"5", "0", ".", "0", "0", " ", "r">>)),
     Row(S(<<"A">>), I(7), S(<<"5", "'", "9", "9", "0", ".", "0", "0", " ", "r", "u", "b">>)),
     Row(I(7), S(<<"3">>), S(<<"1", "9", "9", " ", "r", "u", "b", ".">>)),
     Row(S(<<"C">>), S(<<"a", "b", "c">>), S(<<"1", "0", ".", "0", "0">>))}

Feeds == SeqsUpTo(FeedRows, MaxFeed)

Blank ==
    /\ pc = 1 /\ status = "running" /\ exc = ""
    /\ stocks = <<>> /\ prices = <<>> /\ todo = <<>> /\ calls = <<>>
    /\ page = <<>> /\ product_list = <<>> /\ page_log = <<>>
    /\ unawaited = <<>> /\ ret = <<>> /\ clock = 0
    /\ made = <<>> /\ earlier = <<>>

NoDivide == div_lst = <<>> /\ div_n = 1 /\ div_out = <<>>

(* a run of main, or of the body of upload_stocks / upload_prices on a feed
   the caller downloaded *)
Init ==
    /\ entry \in RunEntries
    /\ target \in (IF entry \in SellerEntries THEN {"OZON"}
                   ELSE IF entry = "market_main" THEN {"FBS+DBS"}
                   ELSE {"FBS", "DBS"})
    /\ catalogs \in (IF entry = "market_main"
                     THEN UNION {{("FBS" :> c) @@ ("DBS" :> d) :
                                     d \in {Reverse(c), SubSeq(c, 2, Len(c))}} :
                                 c \in Catalogs}
                     ELSE {(target :> c) : c \in Catalogs})
    /\ last_page = "absent"
    /\ source_feed \in Feeds
    /\ watch_remnants = IF entry \in {"seller_main", "market_main"} THEN <<>>
                        ELSE source_feed
    /\ offer_ids = <<>>
    /\ Blank /\ NoDivide

Next ==
    \/ get_offer_ids_page
    \/ download_stock
    \/ request_fails
    \/ create_stocks_call
    \/ create_prices_call
    \/ update_call
    \/ update_fails
    \/ upload_prices_call
    \/ return_value

Spec == Init /\ [][Next]_vars

(* main, and the script executed once more on the same feed and catalogs *)
TwiceInit == Init /\ entry \in {"seller_main", "market_main"}

TwiceNext ==
    \/ get_offer_ids_page
    \/ download_stock
    \/ request_fails
    \/ create_stocks_call
    \/ create_prices_call
    \/ update_call
    \/ update_fails
    \/ upload_prices_call
    \/ main_again

TwiceSpec == TwiceInit /\ [][TwiceNext]_vars

(* get_offer_ids alone on a marketplace that answers every page request *)
PagerInit ==
    /\ entry \in {"seller_get_offer_ids", "market_get_offer_ids"}
    /\ target \in (IF entry \in SellerEntries THEN {"OZON"} ELSE {"FBS", "DBS"})
    /\ catalogs \in {(target :> c) : c \in Catalogs}
    /\ last_page \in (IF entry \in SellerEntries THEN {"absent"}
                      ELSE {"empty", "absent", "extra"})
    /\ source_feed = <<>> /\ watch_remnants = <<>> /\ offer_ids = <<>>
    /\ Blank /\ NoDivide

PagerNext == get_offer_ids_page

PagerSpec == PagerInit /\ [][PagerNext]_vars /\ WF_vars(get_offer_ids_page)

Chars == {"0", "1", "7", ">", " ", "-", "_", "a"}
Tokens == SeqsUpTo(Chars, MaxTok)

(* create_stocks alone, on one row whose code is listed *)
QtyInit ==
    /\ entry \in {"seller_create_stocks", "market_create_stocks"}
    /\ target \in (IF entry \in SellerEntries THEN {"OZON"} ELSE {"FBS"})
    /\ catalogs = (target :> <<IdList[1], IdList[2]>>)
    /\ last_page = "absent"
    /\ source_feed = <<>>
    /\ \E tok \in Tokens :
          watch_remnants = <<Row(S(IdList[1]), S(tok), S(<<"1", "0">>))>>
    /\ offer_ids = <<IdList[1], IdList[2]>>
    /\ Blank /\ NoDivide

QtyNext == create_stocks_call

QtySpec == QtyInit /\ [][QtyNext]_vars

PriceChars == {"0", "5", ".", "'", " ", "r"}
PriceTokens == SeqsUpTo(PriceChars, MaxTok)

(* create_prices alone, on one row whose code is listed; the price cell is a str
   or, as pandas reads a bare number, an int *)
PriceInit ==
    /\ entry \in {"seller_create_prices", "market_create_prices"}
    /\ target \in (IF entry \in SellerEntries THEN {"OZON"} ELSE {"FBS"})
    /\ catalogs = (target :> <<IdList[1], IdList[2]>>)
    /\ last_page = "absent"
    /\ source_feed = <<>>
    /\ \E cell \in {S(tok) : tok \in PriceTokens} \cup {I(7)} :
          watch_remnants = <<Row(S(IdList[1]), S(<<"3">>), cell)>>
    /\ offer_ids = <<IdList[1], IdList[2]>>
    /\ Blank /\ NoDivide

PriceNext == create_prices_call

PriceSpec == PriceInit /\ [][PriceNext]_vars

(* divide alone *)
DivideInit ==
    /\ entry = "divide" /\ target = "" /\ catalogs = <<>> /\ last_page = "absent"
    /\ source_feed = <<>> /\ watch_remnants = <<>> /\ offer_ids = <<>>
    /\ Blank
    /\ div_lst \in SeqsUpTo(1..MaxElem, MaxLen) \cup {<<1, 2, 3, 4, 5>>}
    /\ div_n \in 1..MaxN
    /\ div_out = <<>>

DivideNext == divide_call

DivideSpec == DivideInit /\ [][DivideNext]_vars

(***************************************************************************)
(* Vocabulary of the properties                                            *)
(***************************************************************************)
(* the last statement op that has completed, 0 when none has *)
LastStep(op) ==
    LET done == {k \in 1..Len(Flow(entry)) : k < pc /\ Flow(entry)[k].op = op}
    IN  IF done = {} THEN 0 ELSE CHOOSE k \in done : \A m \in done : m <= k

CampOf(k) == IF Flow(entry)[k].camp = "" THEN target ELSE Flow(entry)[k].camp

StocksReturned == LastStep("create_stocks") > 0
PricesReturned == LastStep("create_prices") > 0

StockId(rec) == IF entry \in SellerEntries THEN rec.offer_id ELSE rec.sku
PriceId(rec) == IF entry \in SellerEntries THEN rec.offer_id ELSE rec.id

StockIds == [i \in 1..Len(stocks) |-> StockId(stocks[i])]
PriceIds == [i \in 1..Len(prices) |-> PriceId(prices[i])]

NoRepeat(s) == \A i, j \in 1..Len(s) : i # j => s[i] # s[j]

(* the rows of the feed whose code is id, by position *)
RowsOf(id) == {j \in 1..Len(watch_remnants) : PyStr(watch_remnants[j].Kod) = id}
FirstRowOf(id) == watch_remnants[CHOOSE j \in RowsOf(id) : \A m \in RowsOf(id) : j <= m]

(***************************************************************************)
(* C1.  The stock records create_stocks returns (seller and market) hold    *)
(* exactly one record per identifier of the catalog and none for any other *)
(* identifier: the set of their offer ids is the catalog, no id twice.      *)
(***************************************************************************)
C1_OneStockRecordPerCatalogId ==
    StocksReturned =>
        /\ Range(StockIds) = Range(catalogs[CampOf(LastStep("create_stocks"))])
        /\ NoRepeat(StockIds)

C1_Witness ==
    /\ StocksReturned
    /\ Len(stocks) = 3
    /\ Cardinality(RowsOf(StockId(stocks[1]))) = 2

(***************************************************************************)
(* C2.  After create_stocks an identifier whose code is in no feed row has  *)
(* quantity 0 and one whose code is in the feed has the normalized quantity *)
(* of the first row with that code; catalog {A,B,C} with feed               *)
(* [A:'>10', B:'1'] gives A=100, B=0, C=0.                                  *)
(***************************************************************************)
Quantity(watch) ==
    IF entry \in SellerEntries THEN seller_stock(watch).val ELSE market_stock(watch).val

ExampleFeed ==
    <<Row(S(<<"A">>), S(<<">", "1", "0">>), S(<<"1", "0", "0", ".", "0", "0", " ", "r">>)),
      Row(S(<<"B">>), S(<<"1">>), S(<<"5", "0", ".", "0", "0", " ", "r">>))>>

ExampleCase ==
    /\ watch_remnants = ExampleFeed
    /\ Range(catalogs[CampOf(LastStep("create_stocks"))]) = {<<"A">>, <<"B">>, <<"C">>}

QuantityOfId(id) ==
    LET i == CHOOSE k \in 1..Len(stocks) : StockId(stocks[k]) = id
    IN  StockCount(stocks[i])

C2_QuantityOfFirstRowOrZero ==
    StocksReturned =>
        /\ \A i \in 1..Len(stocks) :
              StockCount(stocks[i]) =
                  IF RowsOf(StockId(stocks[i])) = {} THEN 0
                  ELSE Quantity(FirstRowOf(StockId(stocks[i])))
        /\ ExampleCase =>
              /\ QuantityOfId(<<"A">>) = 100
              /\ QuantityOfId(<<"B">>) = 0
              /\ QuantityOfId(<<"C">>) = 0

C2_Witness ==
    /\ StocksReturned
    /\ ExampleCase
    /\ Len(stocks) = 3
    /\ QuantityOfId(<<"A">>) = 100

(***************************************************************************)
(* C3.  A synchronization run (main of seller.py, main of market.py) ends   *)
(* with a price record, carrying the normalized feed price, for every       *)
(* catalog identifier whose code occurs in the feed, and for no other.      *)
(***************************************************************************)
MainEntries == {"seller_main", "market_main"}

ListedInFeed(cat) == {id \in Range(cat) : RowsOf(id) # {}}

PriceOf(watch) ==
    IF entry \in SellerEntries THEN price_conversion(watch.Tsena).val
    ELSE PyInt(S(price_conversion(watch.Tsena).val)).val

PriceValue(rec) == IF entry \in SellerEntries THEN rec.price ELSE rec.price.value

C3_PriceRecordForEveryMatchedId ==
    (entry \in MainEntries /\ status = "returned") =>
        /\ Range(PriceIds) = ListedInFeed(catalogs[CampOf(Len(Flow(entry)))])
        /\ \A i \in 1..Len(prices) :
              \E j \in RowsOf(PriceId(prices[i])) :
                  PriceValue(prices[i]) = PriceOf(watch_remnants[j])

(***************************************************************************)
(* C4.  The price records create_prices returns hold at most one record    *)
(* per offer identifier, also when a code occurs in several feed rows.      *)
(***************************************************************************)
C4_OnePriceRecordPerId == PricesReturned => NoRepeat(PriceIds)

(***************************************************************************)
(* C5.  An upload loop sends the chunks of the reconciled record list one   *)
(* call per chunk, in chunk order: the bodies of the calls made so far      *)
(* followed by the chunks not yet taken concatenate to the record list,     *)
(* every chunk holds at most the batch size, every chunk but the last holds *)
(* exactly the batch size, a finished loop has sent every chunk, and every  *)
(* call took a step of its own (none is issued beside another).             *)
(***************************************************************************)
Max(a, b) == IF a > b THEN a ELSE b

(* the create statement whose for loop is the current one *)
CurStep == Max(LastStep("create_stocks"), LastStep("create_prices"))
CurIsStocks == Flow(entry)[CurStep].op = "create_stocks"
CurRecords == IF CurIsStocks THEN stocks ELSE prices
CurBatch == IF CurIsStocks THEN StockBatch(entry) ELSE PriceBatch(entry)

CallsOf(endpoint, camp) ==
    SelectSeq(calls, LAMBDA c : c.endpoint = endpoint /\ c.camp = camp)

LoopCalls == CallsOf(IF CurIsStocks THEN "stocks" ELSE "prices", CampOf(CurStep))

Bodies(cs) == [i \in 1..Len(cs) |-> cs[i].body]

Answered(cs) == SelectSeq(cs, LAMBDA c : c.ok)

LoopChunks == Bodies(Answered(LoopCalls)) \o todo

LoopFinished == pc > CurStep + 1

C5_UploadLoopSendsChunksInOrder ==
    CurStep > 0 =>
        /\ Concat(LoopChunks) = CurRecords
        /\ \A i \in 1..Len(LoopChunks) :
              /\ Len(LoopChunks[i]) \in 1..CurBatch
              /\ i < Len(LoopChunks) => Len(LoopChunks[i]) = CurBatch
        /\ LoopFinished => todo = <<>> /\ Concat(Bodies(LoopCalls)) = CurRecords
        /\ Len(calls) <= clock

C5_Witness ==
    /\ entry = "market_main" /\ status = "returned"
    /\ Len(stocks) = MarketStockBatch + 1
    /\ Len(LoopCalls) = 2
    /\ Len(LoopCalls[1].body) = MarketStockBatch
    /\ Len(LoopCalls[2].body) = 1

(***************************************************************************)
(* C6.  When the update call for a chunk fails, it is the last update call  *)
(* of the run: the chunks after it stay unsent, the calls before it were    *)
(* all answered and stay as they were sent, and the error leaves the loop:  *)
(* it reaches the except clause of main, or the caller of upload_stocks /   *)
(* upload_prices.                                                           *)
(***************************************************************************)
C6_FailedChunkEndsTheUpload ==
    \A i \in 1..Len(calls) :
        ~calls[i].ok =>
            /\ i = Len(calls)
            /\ \A j \in 1..(i - 1) : calls[j].ok
            /\ status = (IF entry \in MainEntries THEN "caught" ELSE "raised")
            /\ exc \in NetErrors
            /\ todo # <<>> /\ Head(todo) = calls[i].body
            /\ Bodies(Answered(LoopCalls)) \o todo = divide(CurRecords, CurBatch)

C6_Witness ==
    /\ Len(calls) = 2
    /\ calls[1].ok /\ ~calls[2].ok
    /\ Len(todo) = 2
    /\ status = "caught"

(***************************************************************************)
(* C7.  A run of main that ends without an error has pushed both result     *)
(* sets of every target (OZON; the campaigns FBS and DBS): every chunk of   *)
(* the target's stock records went to the stock endpoint and every chunk of *)
(* its price records to the price endpoint.  The price records of a target  *)
(* are those its price step reconciles: the prices main computed            *)
(* (seller.py), create_prices on the feed and the campaign's catalog        *)
(* (upload_prices of market.py).                                            *)
(***************************************************************************)
Pushed(endpoint, camp) == Concat(Bodies(Answered(CallsOf(endpoint, camp))))

PushedStockIds(camp) ==
    LET recs == Pushed("stocks", camp) IN {StockId(recs[i]) : i \in 1..Len(recs)}

PriceRecordsOf(camp) ==
    IF entry \in SellerEntries THEN prices
    ELSE market_create_prices(watch_remnants, catalogs[camp]).prices

C7_FinishedRunPushedStocksAndPrices ==
    (entry \in MainEntries /\ status = "returned") =>
        \A camp \in DOMAIN catalogs :
            /\ PushedStockIds(camp) = Range(catalogs[camp])
            /\ Pushed("prices", camp) = PriceRecordsOf(camp)

(***************************************************************************)
(* C8.  get_offer_ids pages the catalog to completion: the first request    *)
(* carries the empty cursor and each later one the cursor of the response   *)
(* before it; market.py leaves the loop exactly on a response whose         *)
(* nextPageToken is empty or absent, seller.py exactly when the items       *)
(* gathered number the declared total; on a marketplace that answers every  *)
(* request from one catalog (an empty one too) the call returns, and what   *)
(* it returns are the identifiers of all items of all pages fetched: the    *)
(* catalog.                                                                 *)
(***************************************************************************)
RECURSIVE Gathered(_)
(* the number of items of the first k pages fetched *)
Gathered(k) == IF k = 0 THEN 0 ELSE Gathered(k - 1) + page_log[k].n

StopSignal(k) ==
    IF entry \in SellerEntries THEN Gathered(k) = Len(catalogs[target])
    ELSE Falsy(page_log[k].got)

C8_Paging ==
    /\ \A k \in 1..Len(page_log) :
          /\ page_log[k].sent = (IF k = 1 THEN <<>> ELSE page_log[k - 1].got)
          /\ StopSignal(k) <=> (k = Len(page_log) /\ status = "returned")
    /\ status = "returned" =>
          /\ offer_ids = catalogs[target]
          /\ Len(offer_ids) = Gathered(Len(page_log))

C8_PagesCatalogToCompletion == []C8_Paging /\ <>(status = "returned")

C8_Witness ==
    /\ status = "returned"
    /\ Len(page_log) >= 2
    /\ Len(offer_ids) = 3

(***************************************************************************)
(* C9.  For every list and n >= 1 the chunks of divide(lst, n) concatenate  *)
(* to lst (contiguous, in order, not overlapping); each is non-empty, each  *)
(* but the last has n elements, the last has len(lst) mod n elements, or n  *)
(* when that is 0; the empty list has no chunks;                            *)
(* divide([1,2,3,4,5], 2) = [[1,2],[3,4],[5]].                              *)
(***************************************************************************)
C9_DivideChunks ==
    (entry = "divide" /\ status = "returned") =>
        /\ Concat(div_out) = div_lst
        /\ \A i \in 1..Len(div_out) :
              /\ Len(div_out[i]) >= 1
              /\ i < Len(div_out) => Len(div_out[i]) = div_n
              /\ i = Len(div_out) =>
                    Len(div_out[i]) = (IF Len(div_lst) % div_n = 0 THEN div_n
                                       ELSE Len(div_lst) % div_n)
        /\ div_lst = <<>> => div_out = <<>>
        /\ (div_lst = <<1, 2, 3, 4, 5>> /\ div_n = 2) =>
              div_out = <<(<<1, 2>>), (<<3, 4>>), (<<5>>)>>

C9_Witness ==
    /\ entry = "divide" /\ status = "returned"
    /\ div_lst = <<1, 2, 3, 4, 5>> /\ div_n = 2
    /\ Len(div_out) = 3

(***************************************************************************)
(* C10.  The quantity of a matched row follows three rules in order: '>10'  *)
(* gives 100, '1' gives 0, any other token is parsed as a base-10 integer   *)
(* and gives that integer ('7' gives 7, '0' gives 0, '10' gives 10); a      *)
(* token that does not parse makes create_stocks fail with ValueError, and  *)
(* no record and no zero is emitted for it.                                 *)
(***************************************************************************)
Token == watch_remnants[1].Kolichestvo.s

AllDigits(s) == s # <<>> /\ \A i \in 1..Len(s) : IsDigit(s[i])

RECURSIVE Pow10(_)
Pow10(k) == IF k = 0 THEN 1 ELSE 10 * Pow10(k - 1)

RECURSIVE DecimalSum(_, _)
(* the number a string of digits writes, by place value *)
DecimalSum(s, k) ==
    IF k > Len(s) THEN 0
    ELSE DigitVal(s[k]) * Pow10(Len(s) - k) + DecimalSum(s, k + 1)

(* no int literal: a character that is no digit, sign, blank or underscore *)
HasForeignChar(s) ==
    \E i \in 1..Len(s) : ~IsDigit(s[i]) /\ s[i] \notin {"+", "-", " ", "_"}

Emitted(q) ==
    /\ status = "returned" /\ exc = ""
    /\ Len(stocks) = 2
    /\ StockId(stocks[1]) = IdList[1] /\ StockCount(stocks[1]) = q

Failed ==
    /\ status = "raised" /\ exc = "ValueError"
    /\ stocks = <<>> /\ ret = <<>>

C10_QuantityRules ==
    (entry \in {"seller_create_stocks", "market_create_stocks"} /\ status # "running") =>
        /\ Token = <<">", "1", "0">> => Emitted(100)
        /\ Token = <<"1">> => Emitted(0)
        /\ Token = <<"7">> => Emitted(7)
        /\ Token = <<"0">> => Emitted(0)
        /\ Token = <<"1", "0">> => Emitted(10)
        /\ (AllDigits(Token) /\ Token # <<"1">>) => Emitted(DecimalSum(Token, 1))
        /\ (Token = <<>> \/ (HasForeignChar(Token) /\ Token # <<">", "1", "0">>)) => Failed
        /\ Failed \/ (\E q \in -Pow10(MaxTok)..Pow10(MaxTok) : Emitted(q))
        /\ (status = "returned" /\ Token \notin {<<">", "1", "0">>, <<"1">>}) =>
              /\ PyInt(S(Token)).err = ""
              /\ Emitted(PyInt(S(Token)).val)

C10_Witness ==
    /\ entry = "seller_create_stocks" /\ Failed
    /\ Token = <<"a", "1">>
    /\ offer_ids = <<IdList[1], IdList[2]>>

(***************************************************************************)
(* C11.  A price token whose part before the first '.' holds no decimal     *)
(* digit is a hard failure: create_prices (seller and market) that meets it *)
(* ends with an error and returns no price record list, and no price record *)
(* with an empty or non-integer price is ever produced.                     *)
(***************************************************************************)
PriceCell == watch_remnants[1].Tsena

NoDigitBeforeDot(cell) ==
    cell.t = "str" /\ \A i \in 1..Len(BeforeDot(cell.s)) : ~IsDigit(BeforeDot(cell.s)[i])

CreatePricesEnded ==
    entry \in {"seller_create_prices", "market_create_prices"} /\ status # "running"

(* the price of a record writes an integer: a str of digits (seller), a number (market) *)
IntegerPrice(rec) ==
    IF entry \in SellerEntries THEN AllDigits(rec.price) ELSE rec.price.value \in Nat

C11_NoDigitPriceIsHardFailure ==
    CreatePricesEnded =>
        /\ NoDigitBeforeDot(PriceCell) => (status = "raised" /\ exc # "" /\ prices = <<>>)
        /\ \A i \in 1..Len(prices) : IntegerPrice(prices[i])

(***************************************************************************)
(* C12.  The script run twice in succession on an unchanged feed and        *)
(* unchanged catalogs makes the same stock record list and the same price   *)
(* record list both times, the batch timestamp (updatedAt) left aside, and  *)
(* sends the same chunks in the same order: step by step as far as both     *)
(* runs got, and in full when both ran to their end.                        *)
(***************************************************************************)
(* a record without its timestamp *)
Undated(rec) ==
    IF "items" \in DOMAIN rec
    THEN [rec EXCEPT !.items = <<[rec.items[1] EXCEPT !.updatedAt = 0]>>]
    ELSE rec

UndatedList(recs) == [i \in 1..Len(recs) |-> Undated(recs[i])]

SameMade(a, b) ==
    /\ a.op = b.op /\ a.camp = b.camp
    /\ UndatedList(a.records) = UndatedList(b.records)

SameCall(a, b) ==
    /\ a.endpoint = b.endpoint /\ a.camp = b.camp
    /\ UndatedList(a.body) = UndatedList(b.body)

SecondRun == earlier # <<>>

AfterCreateStocks == LastStep("create_stocks") > LastStep("get_offer_ids")

FetchedCatalog == catalogs[CampOf(LastStep("create_stocks"))]

C13_CreateStocksLeavesCallersListIntact ==
    AfterCreateStocks =>
        /\ Len(offer_ids) = Len(FetchedCatalog)
        /\ Range(offer_ids) = Range(FetchedCatalog)
        /\ (entry = "seller_main" /\ PricesReturned) =>
              prices = seller_create_prices(watch_remnants, FetchedCatalog).prices

=============================================================================
